---- MODULE Spec2Model ----
(***************************************************************************)
(* Model of routing.cpp: a discrete-event simulation of five routing       *)
(* policies (SHPF, SDPF, LLP, MFC, SHPO) on a circuit-switched network.    *)
(*                                                                         *)
(* The 26x26 global arrays become functions over Nodes = 0..NumNodes-1.    *)
(* float/double values that the program only ever fills with integers      *)
(* (capacity, availCap, propDelay, the counters) are integers here.  The   *)
(* cost array holds fractions for LLP and MFC; an entry is kept as the     *)
(* exact fraction num/den, and the conversion to int that the search       *)
(* applies to "dist[u] + edgeCost[u][j]" is modelled as what it does:      *)
(* truncation.  One iteration of a policy's event loop is two steps,       *)
(* LoadEvent (timeUpdate, running = true, cost update) and Route (the path *)
(* search, the reservation and the counters), so that the state between    *)
(* expiry and admission can be observed.                                   *)
(*                                                                         *)
(* Capacities are small enough for float arithmetic to be exact: 1 - a/c   *)
(* is below 1 for every a > 0, so the truncation drops it.  The variable   *)
(* ended is a history variable: it counts, per call and policy run, how    *)
(* often timeUpdate took the branch that ends the call (line 227).         *)
(***************************************************************************)
EXTENDS Integers, Sequences, FiniteSets, TLC

\* ---------------------------------------------------------------- bounds
NumNodes == 3
MaxCalls == 3
MaxDur == 3

\* ------------------------------------------------------ program constants
Infinity == 999
NoVertex == 50
ForestLimit == 27

Nodes == 0..(NumNodes - 1)
Policies == <<"SHPF", "SDPF", "LLP", "MFC", "SHPO">>

ZeroMatrix == [u \in Nodes |-> [v \in Nodes |-> 0]]

\* A cost entry is the fraction num/den the float holds (den = 0: NaN).
Frac(n, d) == [num |-> n, den |-> d]
ZeroCost == [u \in Nodes |-> [v \in Nodes |-> Frac(0, 1)]]

\* (int)(dist + c) for an int dist >= 0 and a float c >= 0
AddTrunc(d, c) == d + (c.num \div c.den)

\* propDelay handed to updateState as the edgeCost array
AsCost(m) == [u \in Nodes |-> [v \in Nodes |-> Frac(m[u][v], 1)]]

VARIABLES
    propDelay,      \* propDelay[26][26]
    capacity,       \* capacity[26][26]
    availCap,       \* availCap[26][26]
    cost,           \* cost[26][26]
    eventQueue,     \* vector<CallEvent>, indexed from 0
    blockedCalls, succCalls, totalCalls, totalHops, totalProp,
    output,         \* the rows printRes has printed
    policy,         \* which of the five loops of main is running (1..5, 6 = returned)
    i,              \* main's event tracker
    pc,             \* "load": at the top of the inner loop; "route": before the search
    ended           \* history: ended[j] = times timeUpdate has ended call j in this run

vars == <<propDelay, capacity, availCap, cost, eventQueue, blockedCalls, succCalls,
          totalCalls, totalHops, totalProp, output, policy, i, pc, ended>>

\* ------------------------------------------------------------ timeUpdate
\* ReclaimCell giving the units back to one orientation of the link only.
ReclaimCellOneWay(a, r, k, m) ==
    IF r[k][m] > 0
    THEN LET r1 == [r EXCEPT ![m][k] = 0]
         IN  [availCap  |-> [a EXCEPT ![m][k] = a[m][k] + r[k][m]],
              resources |-> [r1 EXCEPT ![k][m] = 0]]
    ELSE [availCap |-> a, resources |-> r]

\* ReclaimCell giving the units back without zeroing the record.
ReclaimCellKeepsRecord(a, r, k, m) ==
    IF r[k][m] > 0
    THEN LET s  == a[m][k] + r[k][m]
             a1 == [a EXCEPT ![m][k] = s]
         IN  [availCap |-> [a1 EXCEPT ![k][m] = s], resources |-> r]
    ELSE [availCap |-> a, resources |-> r]

\* One visit of the cell (k, m) in the reclaim loops.
ReclaimCell(a, r, k, m) ==
    IF r[k][m] > 0
    THEN LET s  == a[m][k] + r[k][m]
             a1 == [a EXCEPT ![m][k] = s]
             r1 == [r EXCEPT ![m][k] = 0]
         IN  [availCap |-> [a1 EXCEPT ![k][m] = s], resources |-> [r1 EXCEPT ![k][m] = 0]]
    ELSE [availCap |-> a, resources |-> r]

\* for k, for m: the cells in row-major order, idx = k * NumNodes + m
RECURSIVE Reclaim(_, _, _)
Reclaim(a, r, idx) ==
    IF idx >= NumNodes * NumNodes
    THEN [availCap |-> a, resources |-> r]
    ELSE LET c == ReclaimCell(a, r, idx \div NumNodes, idx % NumNodes)
         IN  Reclaim(c.availCap, c.resources, idx + 1)

\* Expires without the test of the running flag.
ExpiresIgnoringRunning(ev, cur) == ev.endTime <= cur.startTime

\* Expires with < in place of <=: a call ending at the arrival time runs on.
ExpiresStrictlyBefore(ev, cur) == ev.running /\ ev.endTime < cur.startTime

\* the test that ends event j when event currentIndex arrives
Expires(ev, cur) == ev.running /\ ev.endTime <= cur.startTime

\* the loop over j = from .. currentIndex-1, on the state st = [availCap, eventQueue, ended]
RECURSIVE timeUpdateFrom(_, _, _)
timeUpdateFrom(st, j, currentIndex) ==
    IF j >= currentIndex
    THEN st
    ELSE IF Expires(st.eventQueue[j], st.eventQueue[currentIndex])
         THEN LET c == Reclaim(st.availCap, st.eventQueue[j].resources, 0)
              IN  timeUpdateFrom(
                      [availCap   |-> c.availCap,
                       eventQueue |-> [st.eventQueue EXCEPT ![j].running = FALSE,
                                                            ![j].resources = c.resources],
                       ended      |-> [st.ended EXCEPT ![j] = @ + 1]],
                      j + 1, currentIndex)
         ELSE timeUpdateFrom(st, j + 1, currentIndex)

timeUpdate(a, q, e, currentIndex) ==
    timeUpdateFrom([availCap |-> a, eventQueue |-> q, ended |-> e], 0, currentIndex)

\* ------------------------------------------------------ the cost updates
\* for k, for m: cost[k][m] and cost[m][k] both written from availCap[k][m]
RECURSIVE updateSHPFFrom(_, _, _)
updateSHPFFrom(c, a, idx) ==
    IF idx >= NumNodes * NumNodes
    THEN c
    ELSE LET k  == idx \div NumNodes
             m  == idx % NumNodes
             w  == IF a[k][m] > 0 THEN Frac(1, 1) ELSE Frac(0, 1)
             c1 == [c EXCEPT ![k][m] = w]
         IN  updateSHPFFrom([c1 EXCEPT ![m][k] = w], a, idx + 1)

updateSHPF(c, a) == updateSHPFFrom(c, a, 0)

\* 1 - availCap/capacity as a fraction; 0/0 (no link) is NaN, den = 0
updateLLP(a, cap) ==
    [k \in Nodes |-> [m \in Nodes |-> Frac(cap[k][m] - a[k][m], cap[k][m])]]

\* availCap/capacity as a fraction
updateMFC(a, cap) ==
    [k \in Nodes |-> [m \in Nodes |-> Frac(a[k][m], cap[k][m])]]

\* the cost update each policy's loop makes after loading the event
CostUpdate(p, c, a, cap) ==
    CASE p = "SHPF" -> updateSHPF(c, a)
      [] p = "SDPF" -> c
      [] p = "LLP"  -> updateLLP(a, cap)
      [] p = "MFC"  -> updateMFC(a, cap)
      [] p = "SHPO" -> updateSHPF(c, a)

\* --------------------------------------------------- minDistVertexInQueue
RECURSIVE minDistScan(_, _, _, _, _)
minDistScan(dist, queue, idx, minVal, minIndex) ==
    IF idx >= NumNodes
    THEN minIndex
    ELSE IF queue[idx] = 1 /\ dist[idx] < minVal
         THEN minDistScan(dist, queue, idx + 1, dist[idx], idx)
         ELSE minDistScan(dist, queue, idx + 1, minVal, minIndex)

minDistVertexInQueue(dist, queue) == minDistScan(dist, queue, 0, Infinity, NoVertex)

\* ------------------------------------------------- the search (Dijkstra)
\* InitQueue putting every vertex in the queue.
InitQueueAllVertices(exist) == [v \in Nodes |-> 1]

\* queue[i] = 1 iff vertex i has a link with exist[i][j] > 0
InitQueue(exist) ==
    [v \in Nodes |-> IF \E j \in Nodes : exist[v][j] > 0 THEN 1 ELSE 0]

QueueSize(queue) == Cardinality({v \in Nodes : queue[v] = 1})

InitSearch(source, exist) ==
    [queue          |-> InitQueue(exist),
     size           |-> QueueSize(InitQueue(exist)),
     dist           |-> [v \in Nodes |-> IF v = source THEN 0 ELSE Infinity],
     previousVertex |-> [v \in Nodes |-> -1],
     foundFlag      |-> 0]

\* Improves without the test that the link has a free circuit.
ImprovesOverAnyLink(st, u, j, edgeCost, links) ==
    /\ st.queue[j] > 0
    /\ AddTrunc(st.dist[u], edgeCost[u][j]) < st.dist[j]

\* Improves without the comparison of the new distance with the old one.
ImprovesUnconditionally(st, u, j, edgeCost, links) ==
    /\ st.queue[j] > 0
    /\ links[u][j] > 0

\* Improves testing for exactly one free circuit in place of at least one.
ImprovesOnLastCircuit(st, u, j, edgeCost, links) ==
    /\ st.queue[j] > 0
    /\ links[u][j] = 1
    /\ AddTrunc(st.dist[u], edgeCost[u][j]) < st.dist[j]

\* the inner for-j loop for the vertex u just removed from the queue; the
\* iterations write distinct dist[j] and read only dist[u], so they commute
Improves(st, u, j, edgeCost, links) ==
    /\ st.queue[j] > 0
    /\ links[u][j] > 0
    /\ AddTrunc(st.dist[u], edgeCost[u][j]) < st.dist[j]

Relax(st, u, edgeCost, links) ==
    [st EXCEPT
        !.dist = [j \in Nodes |->
                     IF Improves(st, u, j, edgeCost, links)
                     THEN AddTrunc(st.dist[u], edgeCost[u][j]) ELSE st.dist[j]],
        !.previousVertex = [j \in Nodes |->
                     IF Improves(st, u, j, edgeCost, links)
                     THEN u ELSE st.previousVertex[j]]]

\* while (size > 0)
RECURSIVE SearchLoop(_, _, _, _)
SearchLoop(st, destination, edgeCost, links) ==
    IF st.size <= 0
    THEN st
    ELSE LET u == minDistVertexInQueue(st.dist, st.queue)
         IN  IF u > ForestLimit
             THEN st
             ELSE LET s1 == [st EXCEPT !.queue[u] = 0]
                  IN  IF u = destination
                      THEN [s1 EXCEPT !.foundFlag = 1]
                      ELSE SearchLoop(Relax([s1 EXCEPT !.size = @ - 1], u, edgeCost, links),
                                      destination, edgeCost, links)

\* the search of updateState: vertices and links from availCap
Search(source, destination, edgeCost, a) ==
    SearchLoop(InitSearch(source, a), destination, edgeCost, a)

\* ------------------------------------------------------------- emptySHPO
RECURSIVE CountHops(_, _)
CountHops(previousVertex, curr) ==
    IF previousVertex[curr] > -1
    THEN 1 + CountHops(previousVertex, previousVertex[curr])
    ELSE 0

\* vertices from capacity, links from capZero
emptySHPO(source, destination, edgeCost, capZero, cap) ==
    LET st == SearchLoop(InitSearch(source, cap), destination, edgeCost, capZero)
    IN  IF st.foundFlag # 1 THEN Infinity ELSE CountHops(st.previousVertex, destination)

\* ----------------------------------------------------------- updateState
\* one iteration of the walk from the destination back along previousVertex
ReserveLink(w, curr, p, delay) ==
    LET n  == w.availCap[p][curr] - 1
        a1 == [w.availCap EXCEPT ![p][curr] = n]
        r  == w.resources[p][curr] + 1
        r1 == [w.resources EXCEPT ![p][curr] = r]
    IN  [availCap  |-> [a1 EXCEPT ![curr][p] = n],
         resources |-> [r1 EXCEPT ![curr][p] = r],
         totalProp |-> w.totalProp + delay[curr][p],
         totalHops |-> w.totalHops + 1]

RECURSIVE ReserveWalk(_, _, _, _)
ReserveWalk(w, previousVertex, curr, delay) ==
    IF previousVertex[curr] > -1
    THEN ReserveWalk(ReserveLink(w, curr, previousVertex[curr], delay),
                     previousVertex, previousVertex[curr], delay)
    ELSE w

\* NoPath counting a hop before the search result is looked at.
NoPathCountsHop(w) == [w EXCEPT !.totalHops = @ + 1]

\* What the walk does when the search did not find the destination: nothing.
NoPath(w) == w

\* updateState on w = [availCap, resources of the current event, totalProp, totalHops];
\* the result carries the return value in .found
updateState(source, destination, edgeCost, w, delay) ==
    LET st == Search(source, destination, edgeCost, w.availCap)
    IN  IF st.foundFlag # 1
        THEN [found |-> FALSE, w |-> NoPath(w)]
        ELSE [found |-> TRUE, w |-> ReserveWalk(w, st.previousVertex, destination, delay)]

\* reset() clearing the end time along with the flag and the record.
ResetEventClearsEndTime(ev) ==
    [ev EXCEPT !.running = FALSE, !.resources = ZeroMatrix, !.endTime = 0]

\* reset() clearing the resources record only.
ResetEventKeepsRunning(ev) == [ev EXCEPT !.resources = ZeroMatrix]

\* reset() clearing the running flag only.
ResetEventKeepsResources(ev) == [ev EXCEPT !.running = FALSE]

\* ----------------------------------------------------------- clearValues
ResetEvent(ev) == [ev EXCEPT !.running = FALSE, !.resources = ZeroMatrix]

\* ------------------------------------------------------------------ main
PolicyName == Policies[policy]

\* a / b as the program computes it in double: the pair, den = 0 when it divides by zero
Ratio(a, b) == [num |-> a, den |-> b]

\* topology.dat: one line per link, "<A> <B> <propDelay> <capacity>"; both
\* orientations are stored.  A link is absent, short and wide, or long and narrow.
NoLink == [cap |-> 0, delay |-> 0]
LinkKinds == {NoLink, [cap |-> 2, delay |-> 1], [cap |-> 1, delay |-> 3]}
\* the same with the long link's delay at the value the search uses for infinity
FarLinkKinds == {NoLink, [cap |-> 2, delay |-> 1], [cap |-> 1, delay |-> Infinity]}
Links == {l \in Nodes \X Nodes : l[1] < l[2]}
LinkOf(u, v) == IF u < v THEN <<u, v>> ELSE <<v, u>>

\* callworkload.dat: MaxCalls calls in arrival order, one time unit apart; a call
\* ends by the next arrival (duration 1) or outlasts the workload (duration MaxDur)
CallEvent(s, d, sr, dst) ==
    [startTime |-> s, duration |-> d, endTime |-> s + d, source |-> sr,
     destination |-> dst, running |-> FALSE, resources |-> ZeroMatrix]
Sources == {0, 1}
Dests == {1, 2}
CallParams == [duration : {1, MaxDur}, source : Sources, destination : Dests]
Workloads == {[n \in 0..(MaxCalls - 1) |->
                  CallEvent(n, f[n].duration, f[n].source, f[n].destination)] :
              f \in [0..(MaxCalls - 1) -> CallParams]}

\* the state when main reaches the first policy's loop, the links drawn from kinds
Loaded(kinds) ==
    /\ \E topo \in [Links -> kinds] :
          /\ propDelay = [u \in Nodes |-> [v \in Nodes |->
                            IF u = v THEN 0 ELSE topo[LinkOf(u, v)].delay]]
          /\ capacity = [u \in Nodes |-> [v \in Nodes |->
                            IF u = v THEN 0 ELSE topo[LinkOf(u, v)].cap]]
    /\ availCap = capacity
    /\ cost = ZeroCost
    /\ eventQueue \in Workloads
    /\ totalCalls = MaxCalls
    /\ blockedCalls = 0
    /\ succCalls = 0
    /\ totalHops = 0
    /\ totalProp = 0
    /\ output = <<>>
    /\ policy = 1
    /\ i = 0
    /\ pc = "load"
    /\ ended = [j \in 0..(MaxCalls - 1) |-> 0]

Init == Loaded(LinkKinds)

InitFar == Loaded(FarLinkKinds)

\* top of the inner loop with an event left: timeUpdate(i), running = true, cost update
LoadEvent ==
    /\ pc = "load"
    /\ policy <= Len(Policies)
    /\ i < totalCalls
    /\ \E t \in {timeUpdate(availCap, eventQueue, ended, i)} :
           /\ availCap' = t.availCap
           /\ eventQueue' = [t.eventQueue EXCEPT ![i].running = TRUE]
           /\ ended' = t.ended
           /\ cost' = CostUpdate(PolicyName, cost, t.availCap, capacity)
    /\ pc' = "route"
    /\ UNCHANGED <<propDelay, capacity, blockedCalls, succCalls, totalCalls, totalHops,
                   totalProp, output, policy, i>>

\* EdgeCost with the SDPF loop handing over the cost array like the other loops.
EdgeCostAlwaysCost == cost

\* the edgeCost array the policy's loop hands to the search
EdgeCost == IF PolicyName = "SDPF" THEN AsCost(propDelay) ELSE cost

\* the test of the if in the policy's loop that counts the call as blocked
Blocks(src, dst, found) ==
    IF PolicyName = "SHPO"
    THEN emptySHPO(src, dst, cost, availCap, capacity)
             > emptySHPO(src, dst, cost, capacity, capacity)
    ELSE ~found

\* Route without the else: succCalls++ runs after the if for a blocked call too.
RouteWithoutElse ==
    /\ pc = "route"
    /\ LET ev  == eventQueue[i]
           w   == [availCap |-> availCap, resources |-> ev.resources,
                   totalProp |-> totalProp, totalHops |-> totalHops]
       IN  \E r \in {updateState(ev.source, ev.destination, EdgeCost, w, propDelay)} :
           /\ succCalls' = succCalls + 1
           /\ IF Blocks(ev.source, ev.destination, r.found)
              THEN /\ blockedCalls' = blockedCalls + 1
                   /\ eventQueue' = [eventQueue EXCEPT ![i].running = FALSE]
                   /\ UNCHANGED <<availCap, totalProp, totalHops>>
              ELSE /\ blockedCalls' = blockedCalls
                   /\ eventQueue' = [eventQueue EXCEPT ![i].resources = r.w.resources]
                   /\ availCap' = r.w.availCap
                   /\ totalProp' = r.w.totalProp
                   /\ totalHops' = r.w.totalHops
    /\ i' = i + 1
    /\ pc' = "load"
    /\ UNCHANGED <<propDelay, capacity, cost, totalCalls, output, policy, ended>>

\* the rest of the loop body: the search, the reservation, the counters, i++
Route ==
    /\ pc = "route"
    /\ LET ev  == eventQueue[i]
           w   == [availCap |-> availCap, resources |-> ev.resources,
                   totalProp |-> totalProp, totalHops |-> totalHops]
       IN  \E r \in {updateState(ev.source, ev.destination, EdgeCost, w, propDelay)} :
           IF Blocks(ev.source, ev.destination, r.found)
           THEN /\ blockedCalls' = blockedCalls + 1
                /\ succCalls' = succCalls
                /\ IF PolicyName = "SHPO"
                   THEN /\ eventQueue' = [eventQueue EXCEPT ![i].running = FALSE]
                        /\ UNCHANGED <<availCap, totalProp, totalHops>>
                   ELSE /\ eventQueue' = [eventQueue EXCEPT ![i].running = FALSE,
                                                             ![i].resources = r.w.resources]
                        /\ availCap' = r.w.availCap
                        /\ totalProp' = r.w.totalProp
                        /\ totalHops' = r.w.totalHops
           ELSE /\ succCalls' = succCalls + 1
                /\ blockedCalls' = blockedCalls
                /\ eventQueue' = [eventQueue EXCEPT ![i].resources = r.w.resources]
                /\ availCap' = r.w.availCap
                /\ totalProp' = r.w.totalProp
                /\ totalHops' = r.w.totalHops
    /\ i' = i + 1
    /\ pc' = "load"
    /\ UNCHANGED <<propDelay, capacity, cost, totalCalls, output, policy, ended>>

\* all events processed: the statistics, printRes, clearValues, the next policy's loop
Finish ==
    /\ pc = "load"
    /\ policy <= Len(Policies)
    /\ i >= totalCalls
    /\ output' = Append(output,
                        [policy         |-> PolicyName,
                         totalCalls     |-> totalCalls,
                         succCalls      |-> succCalls,
                         blockedCalls   |-> blockedCalls,
                         avgProp        |-> Ratio(totalProp, succCalls),
                         avgHop         |-> Ratio(totalHops, succCalls),
                         succPercent    |-> Ratio(succCalls * 100, totalCalls),
                         blockedPercent |-> Ratio(blockedCalls * 100, totalCalls)])
    /\ blockedCalls' = 0
    /\ succCalls' = 0
    /\ totalHops' = 0
    /\ totalProp' = 0
    /\ availCap' = capacity
    /\ eventQueue' = [j \in DOMAIN eventQueue |-> ResetEvent(eventQueue[j])]
    /\ cost' = ZeroCost
    /\ ended' = [j \in DOMAIN ended |-> 0]
    /\ policy' = policy + 1
    /\ i' = 0
    /\ UNCHANGED <<propDelay, capacity, totalCalls, pc>>

\* Next with an inner loop that can also move on to the next event at its top.
NextSkippingEvents ==
    \/ LoadEvent
    \/ Route
    \/ Finish
    \/ /\ pc = "load" /\ policy <= Len(Policies) /\ i < totalCalls
       /\ i' = i + 1
       /\ UNCHANGED <<propDelay, capacity, availCap, cost, eventQueue, blockedCalls,
                      succCalls, totalCalls, totalHops, totalProp, output, policy, pc,
                      ended>>

Next == LoadEvent \/ Route \/ Finish

Spec == Init /\ [][Next]_vars

SpecFar == InitFar /\ [][Next]_vars

\* The first event of the SHPF loop on any availability table of the topology: the
\* table is drawn link by link between 0 and the capacity, the call between any two
\* nodes; the loop body loads the event, updates the costs and searches.
MaxUnits == CHOOSE m \in {k.cap : k \in LinkKinds} : \A k \in LinkKinds : k.cap <= m
TableOf(f) == [u \in Nodes |-> [v \in Nodes |-> IF u = v THEN 0 ELSE f[LinkOf(u, v)]]]
InitAvail ==
    /\ \E topo \in [Links -> LinkKinds] :
          /\ propDelay = TableOf([l \in Links |-> topo[l].delay])
          /\ capacity = TableOf([l \in Links |-> topo[l].cap])
    /\ \E free \in [Links -> 0..MaxUnits] :
          /\ \A l \in Links : free[l] <= capacity[l[1]][l[2]]
          /\ availCap = TableOf(free)
    /\ cost = ZeroCost
    /\ \E s, d \in Nodes :
          eventQueue = [n \in 0..(MaxCalls - 1) |-> CallEvent(n, MaxDur, s, d)]
    /\ totalCalls = MaxCalls
    /\ blockedCalls = 0
    /\ succCalls = 0
    /\ totalHops = 0
    /\ totalProp = 0
    /\ output = <<>>
    /\ policy = 1
    /\ i = 0
    /\ pc = "load"
    /\ ended = [j \in 0..(MaxCalls - 1) |-> 0]

FirstLoad == i = 0 /\ LoadEvent
FirstRoute == i = 0 /\ Route
NextAvail == FirstLoad \/ FirstRoute

SpecAvail == InitAvail /\ [][NextAvail]_vars

\* ======================================================== properties
\* Definitions the properties are stated with; none of them is used by the model.

LastCall == totalCalls - 1
ThisCall == eventQueue[i]

\* units of link (u, v) recorded by the calls 0..n of the queue q
RECURSIVE HeldUpTo(_, _, _, _)
HeldUpTo(q, u, v, n) ==
    IF n < 0 THEN 0 ELSE q[n].resources[u][v] + HeldUpTo(q, u, v, n - 1)

\* call j is running and its end time is no later than the arrival of call i
Due(j) == eventQueue[j].running /\ eventQueue[j].endTime <= ThisCall.startTime

\* units of link (u, v) recorded by the calls 0..n that timeUpdate(i) is to end
RECURSIVE DueUpTo(_, _, _)
DueUpTo(u, v, n) ==
    IF n < 0
    THEN 0
    ELSE (IF Due(n) THEN eventQueue[n].resources[u][v] ELSE 0) + DueUpTo(u, v, n - 1)

\* the links a resources record holds, and whether it holds any
LinksHeld(r) == {l \in Links : r[l[1]][l[2]] > 0}
HoldsLinks(ev) == \E u, v \in Nodes : ev.resources[u][v] > 0

\* the simple paths from s to d over links with a[u][v] > 0, as node sequences
NodeSeqs == UNION {[1..n -> Nodes] : n \in 1..NumNodes}
Paths(a, s, d) ==
    {p \in NodeSeqs :
        /\ p[1] = s
        /\ p[Len(p)] = d
        /\ \A m, n \in 1..Len(p) : m # n => p[m] # p[n]
        /\ \A n \in 1..(Len(p) - 1) : a[p[n]][p[n + 1]] > 0}
PathLinks(p) == {LinkOf(p[n], p[n + 1]) : n \in 1..(Len(p) - 1)}

RECURSIVE DelayOf(_)
DelayOf(ls) ==
    IF ls = {}
    THEN 0
    ELSE LET l == CHOOSE x \in ls : TRUE
         IN  propDelay[l[1]][l[2]] + DelayOf(ls \ {l})

RouteStep == pc = "route" /\ pc' = "load"
Admitted == RouteStep /\ succCalls' = succCalls + 1
Blocked == RouteStep /\ blockedCalls' = blockedCalls + 1

\* C1: capacity conservation.  In every state of every policy run, for every pair of
\* nodes (u, v), availCap[u][v] plus the units of (u, v) recorded in the resources of
\* all call events equals capacity[u][v].
CapacityConservation ==
    \A u, v \in Nodes :
        availCap[u][v] + HeldUpTo(eventQueue, u, v, LastCall) = capacity[u][v]

\* A call has been released by timeUpdate and a running call holds a two-link path.
CapacityConservationWitness ==
    /\ \E j \in DOMAIN eventQueue : ended[j] = 1
    /\ \E j \in DOMAIN eventQueue :
          eventQueue[j].running /\ Cardinality(LinksHeld(eventQueue[j].resources)) = 2

\* C2: in every state and for every link, 0 <= availCap <= capacity.
AvailWithinCapacity ==
    \A u, v \in Nodes : 0 <= availCap[u][v] /\ availCap[u][v] <= capacity[u][v]

\* A link of capacity 2 is saturated after a release has happened, and every event
\* of the run has gone through its admission step.
AvailWithinCapacityWitness ==
    /\ i = totalCalls
    /\ \E j \in DOMAIN eventQueue : ended[j] = 1
    /\ \E u, v \in Nodes : capacity[u][v] = 2 /\ availCap[u][v] = 0

\* C3: a call is released at most once per run.  A timeUpdate step adds to every
\* link exactly the units recorded by the calls it ends, leaves those calls with an
\* all-zero record and not running, and never ends a call a second time.
ReleasedExactlyOnce ==
    /\ [][pc = "load" /\ pc' = "route" =>
            /\ \A u, v \in Nodes : availCap'[u][v] = availCap[u][v] + DueUpTo(u, v, i - 1)
            /\ \A j \in 0..(i - 1) :
                  /\ Due(j) => /\ eventQueue'[j].resources = ZeroMatrix
                               /\ ~eventQueue'[j].running
                               /\ ended'[j] = ended[j] + 1
                  /\ ~Due(j) => ended'[j] = ended[j]]_vars
    /\ [](\A j \in DOMAIN ended : ended[j] <= 1)

\* A call that held links was released, and a later timeUpdate has run since.
ReleasedExactlyOnceWitness ==
    /\ pc = "route"
    /\ i = 2
    /\ blockedCalls = 0
    /\ eventQueue[0].source # eventQueue[0].destination
    /\ ended[0] = 1
    /\ eventQueue[0].resources = ZeroMatrix

\* C4: a blocked call has no side effects.  When the admission step counts the call
\* as blocked, availCap, every call's resources record, totalHops and totalProp are
\* what they were after timeUpdate.
BlockedNoSideEffects ==
    [][Blocked =>
          /\ availCap' = availCap
          /\ \A j \in DOMAIN eventQueue : eventQueue'[j].resources = eventQueue[j].resources
          /\ totalHops' = totalHops
          /\ totalProp' = totalProp]_vars

\* A call has been blocked while an earlier call holds links.
BlockedNoSideEffectsWitness ==
    /\ pc = "load"
    /\ i >= 2
    /\ blockedCalls >= 1
    /\ ~eventQueue[i - 1].running
    /\ \E j \in 0..(i - 2) : eventQueue[j].running /\ HoldsLinks(eventQueue[j])

\* the paths the search may use for the call being routed, and what it reserved
OpenPaths == Paths(availCap, ThisCall.source, ThisCall.destination)
Reserved == LinksHeld(eventQueue'[i].resources)
ReservedIsPath == \E p \in OpenPaths : PathLinks(p) = Reserved

\* C5: under every policy, SHPO included, a call with no path from source to
\* destination over links with availCap > 0 is counted in blockedCalls and not in
\* succCalls.
NoPathIsBlocked ==
    [][RouteStep /\ OpenPaths = {} =>
          blockedCalls' = blockedCalls + 1 /\ succCalls' = succCalls]_vars

\* C6: under SHPF, SDPF, LLP and MFC, whatever the link delays, a call between two
\* different nodes is blocked if and only if the destination is not reachable from
\* the source over links with availCap > 0.
BlockedIffUnreachable ==
    [][RouteStep /\ PolicyName # "SHPO" /\ ThisCall.source # ThisCall.destination =>
          (blockedCalls' = blockedCalls + 1 <=> OpenPaths = {})]_vars

\* C7: whenever SHPF admits a call, the links it reserves are a source-to-destination
\* path with the minimum number of links over all paths on links with availCap > 0.
SHPFMinHops ==
    [][Admitted /\ PolicyName = "SHPF" =>
          /\ ReservedIsPath
          /\ \A q \in OpenPaths : Cardinality(Reserved) <= Len(q) - 1]_vars

\* SHPF has routed a call over two links because the direct link, which exists, was
\* saturated.
SHPFMinHopsWitness ==
    /\ PolicyName = "SHPF"
    /\ pc = "load"
    /\ i >= 1
    /\ eventQueue[i - 1].running
    /\ Cardinality(LinksHeld(eventQueue[i - 1].resources)) = 2
    /\ capacity[eventQueue[i - 1].source][eventQueue[i - 1].destination] > 0

\* C8: whenever SDPF admits a call, the links it reserves are a source-to-destination
\* path whose summed propDelay is the minimum over all paths on links with
\* availCap > 0.
SDPFMinDelay ==
    [][Admitted /\ PolicyName = "SDPF" =>
          /\ ReservedIsPath
          /\ \A q \in OpenPaths : DelayOf(Reserved) <= DelayOf(PathLinks(q))]_vars

\* SDPF has routed a call over two links although the direct link still has a free
\* circuit: the two links together are shorter.
SDPFMinDelayWitness ==
    /\ PolicyName = "SDPF"
    /\ pc = "load"
    /\ i >= 1
    /\ eventQueue[i - 1].running
    /\ Cardinality(LinksHeld(eventQueue[i - 1].resources)) = 2
    /\ availCap[eventQueue[i - 1].source][eventQueue[i - 1].destination] > 0

\* utilization of link l is no more than that of link m: (1 - a/c) compared exactly
UtilLeq(l, m) ==
    (capacity[l[1]][l[2]] - availCap[l[1]][l[2]]) * capacity[m[1]][m[2]]
        <= (capacity[m[1]][m[2]] - availCap[m[1]][m[2]]) * capacity[l[1]][l[2]]

\* C9: whenever LLP admits a call, the busiest link of the reserved path is no more
\* utilized than the busiest link of any other path on links with availCap > 0.
LLPLeastLoaded ==
    [][Admitted /\ PolicyName = "LLP" =>
          /\ ReservedIsPath
          /\ \A q \in OpenPaths :
                \A l \in Reserved : \E m \in PathLinks(q) : UtilLeq(l, m)]_vars

\* C10: whenever MFC admits a call, the smallest number of free circuits on a link of
\* the reserved path is no less than that of any other path on links with
\* availCap > 0.
MFCMostFree ==
    [][Admitted /\ PolicyName = "MFC" =>
          /\ ReservedIsPath
          /\ \A q \in OpenPaths :
                \A l \in Reserved : \E m \in PathLinks(q) :
                    availCap[l[1]][l[2]] >= availCap[m[1]][m[2]]]_vars

\* the topology has exactly one link, every call runs between its two ends, and no
\* call ends before the last one arrives
TheLinks == {l \in Links : capacity[l[1]][l[2]] > 0}
OneLink == CHOOSE l \in TheLinks : TRUE
OneLinkWorkload ==
    /\ Cardinality(TheLinks) = 1
    /\ \A j \in DOMAIN eventQueue :
          /\ {eventQueue[j].source, eventQueue[j].destination} = {OneLink[1], OneLink[2]}
          /\ eventQueue[j].endTime > eventQueue[LastCall].startTime
Min(a, b) == IF a <= b THEN a ELSE b

\* C11: on a topology of one link of capacity c and delay d, with k calls between its
\* ends that all overlap, every policy admits min(k, c) calls and blocks the others
\* (after n calls: min(n, c) admitted), each admitted call adds 1 hop and delay d, and
\* the printed averages are 1 hop and delay d.
SingleLinkAdmission ==
    OneLinkWorkload =>
        LET c == capacity[OneLink[1]][OneLink[2]]
            d == propDelay[OneLink[1]][OneLink[2]]
        IN  /\ succCalls = Min(i, c)
            /\ blockedCalls = i - Min(i, c)
            /\ totalHops = succCalls
            /\ totalProp = d * succCalls
            /\ \A n \in 1..Len(output) :
                  /\ output[n].succCalls = Min(totalCalls, c)
                  /\ output[n].blockedCalls = totalCalls - Min(totalCalls, c)
                  /\ output[n].avgHop.den > 0
                  /\ output[n].avgHop.num = output[n].avgHop.den
                  /\ output[n].avgProp.num = d * output[n].avgProp.den

\* C12: after the first i events of a run succCalls + blockedCalls = i; the step that
\* processes an event increments exactly one of the two counters by exactly one and
\* the step that loads it changes neither; every printed row has succCalls +
\* blockedCalls = totalCalls, so the two percentages add up to 100.
OutcomeAccounting ==
    /\ [](/\ succCalls + blockedCalls = i
          /\ \A n \in 1..Len(output) :
                /\ output[n].succCalls + output[n].blockedCalls = output[n].totalCalls
                /\ output[n].succPercent.den = output[n].blockedPercent.den
                /\ output[n].succPercent.num + output[n].blockedPercent.num
                       = 100 * output[n].succPercent.den)
    /\ [][/\ RouteStep =>
                \/ succCalls' = succCalls + 1 /\ blockedCalls' = blockedCalls
                \/ succCalls' = succCalls /\ blockedCalls' = blockedCalls + 1
          /\ pc' = "route" =>
                succCalls' = succCalls /\ blockedCalls' = blockedCalls]_vars

\* a run over three events ends with two admitted and one blocked, after a printed row
OutcomeAccountingWitness ==
    /\ pc = "load" /\ i = totalCalls /\ Len(output) >= 1
    /\ succCalls = 2 /\ blockedCalls = 1

\* C13: totalHops and totalProp start a run at 0 and change only when a call is
\* admitted: the admission reserves one unit on each link of a path from the source
\* to the destination of the call, and adds the number of those links to totalHops
\* and the sum of propDelay over them to totalProp.  A blocked call and the loading
\* of an event add nothing.
HopDelayTotals ==
    /\ [](i = 0 /\ pc = "load" => totalHops = 0 /\ totalProp = 0)
    /\ [][/\ Admitted =>
                /\ \A u, v \in Nodes : eventQueue'[i].resources[u][v] <= 1
                /\ ReservedIsPath
                /\ totalHops' = totalHops + Cardinality(Reserved)
                /\ totalProp' = totalProp + DelayOf(Reserved)
          /\ Blocked => totalHops' = totalHops /\ totalProp' = totalProp
          /\ pc' = "route" => totalHops' = totalHops /\ totalProp' = totalProp]_vars

\* C14: a run that ends with succCalls = 0 does not divide by it: no printed row
\* holds a quotient totalHops / succCalls or totalProp / succCalls whose divisor is 0.
ZeroAdmittedHandled ==
    \A n \in 1..Len(output) :
        output[n].succCalls = 0 =>
            output[n].avgHop.den # 0 /\ output[n].avgProp.den # 0

\* C15: at the start of each of the five runs (and after the last), before the first
\* event is loaded, availCap equals capacity, every event is not running and has an
\* all-zero resources record, blockedCalls, succCalls, totalHops and totalProp are 0
\* and totalCalls is the number of loaded calls.
PristineStart ==
    pc = "load" /\ i = 0 =>
        /\ availCap = capacity
        /\ \A j \in DOMAIN eventQueue :
              ~eventQueue[j].running /\ eventQueue[j].resources = ZeroMatrix
        /\ blockedCalls = 0 /\ succCalls = 0 /\ totalHops = 0 /\ totalProp = 0
        /\ totalCalls = Cardinality(DOMAIN eventQueue)

\* a run starts after a run that ended with three admitted calls, none of them over
\* before the last arrival, so with reservations held and calls running at its end
PristineStartWitness ==
    /\ pc = "load" /\ i = 0 /\ policy >= 2
    /\ output[Len(output)].succCalls = 3
    /\ output[Len(output)].avgHop.num >= 4
    /\ \A j \in DOMAIN eventQueue : eventQueue[j].endTime > eventQueue[LastCall].startTime

\* The part of the state a run works on, and that state as a function of the loaded
\* topology and workload alone: FreshRun is the state of a freshly loaded program,
\* AfterLoad and AfterRoute are what the loop body of policy p makes of a state st
\* for event n, and Replay(p, n) is the state after the first n events of a run of
\* policy p that starts from FreshRun.
Dyn ==
    [availCap |-> availCap, eventQueue |-> eventQueue, cost |-> cost,
     blockedCalls |-> blockedCalls, succCalls |-> succCalls,
     totalHops |-> totalHops, totalProp |-> totalProp]
FreshRun ==
    [availCap |-> capacity,
     eventQueue |-> [j \in DOMAIN eventQueue |->
                        CallEvent(eventQueue[j].startTime, eventQueue[j].duration,
                                  eventQueue[j].source, eventQueue[j].destination)],
     cost |-> ZeroCost,
     blockedCalls |-> 0, succCalls |-> 0, totalHops |-> 0, totalProp |-> 0]
AfterLoad(p, st, n) ==
    LET t == timeUpdate(st.availCap, st.eventQueue, ended, n)
    IN  [st EXCEPT !.availCap = t.availCap,
                   !.eventQueue = [t.eventQueue EXCEPT ![n].running = TRUE],
                   !.cost = CostUpdate(Policies[p], st.cost, t.availCap, capacity)]
AfterRoute(p, st, n) ==
    LET ev == st.eventQueue[n]
        ec == IF Policies[p] = "SDPF" THEN AsCost(propDelay) ELSE st.cost
        w  == [availCap |-> st.availCap, resources |-> ev.resources,
               totalProp |-> st.totalProp, totalHops |-> st.totalHops]
        r  == updateState(ev.source, ev.destination, ec, w, propDelay)
        b  == IF Policies[p] = "SHPO"
              THEN emptySHPO(ev.source, ev.destination, st.cost, st.availCap, capacity)
                     > emptySHPO(ev.source, ev.destination, st.cost, capacity, capacity)
              ELSE ~r.found
    IN  IF b
        THEN [st EXCEPT !.blockedCalls = @ + 1, !.eventQueue[n].running = FALSE]
        ELSE [st EXCEPT !.succCalls = @ + 1,
                        !.availCap = r.w.availCap,
                        !.eventQueue[n].resources = r.w.resources,
                        !.totalProp = r.w.totalProp,
                        !.totalHops = r.w.totalHops]
RECURSIVE Replay(_, _)
Replay(p, n) ==
    IF n = 0 THEN FreshRun ELSE AfterRoute(p, AfterLoad(p, Replay(p, n - 1), n - 1), n - 1)

\* C16: determinism.  Whatever runs came before it, a run of a policy goes through
\* the states of a run of that policy from the freshly loaded program: after each of
\* its events the availability, every call's record and flag (so each call's outcome
\* and reserved links) and the four counters are those of Replay; and every step has
\* one successor, the value of AfterLoad or AfterRoute on the current state.
Determinism ==
    /\ [](pc = "load" /\ policy <= Len(Policies) => Dyn = Replay(policy, i))
    /\ [][/\ pc = "load" /\ pc' = "route" => Dyn' = AfterLoad(policy, Dyn, i) /\ i' = i
          /\ RouteStep => Dyn' = AfterRoute(policy, Dyn, i) /\ i' = i + 1]_vars

\* the last run has processed all events after four other runs; its predecessor left
\* calls running with circuits reserved, and it admitted a call and blocked a call
DeterminismWitness ==
    /\ pc = "load" /\ policy = Len(Policies) /\ i = totalCalls
    /\ output[Len(output)].succCalls >= 2
    /\ \A j \in DOMAIN eventQueue : eventQueue[j].endTime > eventQueue[LastCall].startTime
    /\ succCalls >= 1 /\ blockedCalls >= 1

\* C17: release idempotence.  Wherever the loop calls timeUpdate(i), calling it a
\* second time right after changes nothing: availCap, every call's resources record
\* and running flag are as after the first call, and the second call ends no call.
ReleaseIdempotent ==
    pc = "load" /\ i < totalCalls =>
        LET once  == timeUpdate(availCap, eventQueue, ended, i)
            twice == timeUpdate(once.availCap, once.eventQueue, once.ended, i)
        IN  /\ twice.availCap = once.availCap
            /\ \A j \in DOMAIN eventQueue :
                  /\ twice.eventQueue[j].resources = once.eventQueue[j].resources
                  /\ twice.eventQueue[j].running = once.eventQueue[j].running
            /\ twice.ended = once.ended

\* timeUpdate(i) is about to release a call that is over and holds two links,
\* while another call keeps running
ReleaseIdempotentWitness ==
    /\ pc = "load" /\ i < totalCalls
    /\ \E j, k \in 0..(i - 1) :
          /\ Due(j) /\ Cardinality(LinksHeld(eventQueue[j].resources)) = 2
          /\ eventQueue[k].running /\ ~Due(k) /\ HoldsLinks(eventQueue[k])

\* the availability tables of the topology that are link by link at least a, and
\* whether SHPF's cost update and search find no path for the call at hand on table x
TablesAbove(a) ==
    {TableOf(f) : f \in {g \in [Links -> 0..MaxUnits] :
                            \A l \in Links : /\ a[l[1]][l[2]] <= g[l]
                                             /\ g[l] <= capacity[l[1]][l[2]]}}
SHPFBlocks(x) ==
    Search(ThisCall.source, ThisCall.destination, updateSHPF(cost, x), x).foundFlag # 1

\* C18 as stated: for availability tables a <= b (link by link) of one topology, if
\* SHPF blocks a call on a, it blocks the call on b.
MonotoneAsStated ==
    [][Blocked => \A b \in TablesAbove(availCap) : SHPFBlocks(b)]_vars

\* C18 amended: for availability tables a <= b (link by link) of one topology, if
\* SHPF blocks a call on b, it blocks the call on a.
MonotoneInAvailability ==
    [][RouteStep => \A b \in TablesAbove(availCap) : SHPFBlocks(b) => Blocked]_vars

\* SHPF has blocked a call between two nodes that the topology connects, on a table
\* that has a free circuit, and a table with more free circuits blocks it as well
MonotoneInAvailabilityWitness ==
    /\ pc = "load" /\ i = 1 /\ blockedCalls = 1
    /\ Paths(capacity, eventQueue[0].source, eventQueue[0].destination) # {}
    /\ \E u, v \in Nodes : availCap[u][v] > 0
    /\ \E b \in TablesAbove(availCap) :
          /\ b # availCap
          /\ Search(eventQueue[0].source, eventQueue[0].destination,
                    updateSHPF(cost, b), b).foundFlag # 1

\* C19: expiry precedes admission.  When the search for event i starts, every earlier
\* event whose endTime is no later than the arrival of i is not running and holds
\* nothing.  An admitted event is running after its admission, and its record is not
\* touched by the admission of another event nor by the loading of an event that
\* arrives before its endTime, so until then it holds what its admission reserved.
ExpiryPrecedesAdmission ==
    /\ [](pc = "route" =>
             \A j \in 0..(i - 1) :
                 eventQueue[j].endTime <= ThisCall.startTime =>
                     ~eventQueue[j].running /\ eventQueue[j].resources = ZeroMatrix)
    /\ [][/\ pc = "load" /\ pc' = "route" =>
                \A j \in 0..(i - 1) :
                    eventQueue[j].endTime > ThisCall.startTime =>
                        eventQueue'[j] = eventQueue[j]
          /\ RouteStep =>
                /\ \A j \in DOMAIN eventQueue \ {i} : eventQueue'[j] = eventQueue[j]
                /\ Admitted => eventQueue'[i].running]_vars

\* on a topology whose only link has capacity 1, a call is admitted on the link at
\* the time the call before it, which held the link, ends; a third call is running
\* at that time
ExpiryPrecedesAdmissionWitness ==
    /\ pc = "load" /\ i = totalCalls
    /\ Cardinality(TheLinks) = 1
    /\ capacity[OneLink[1]][OneLink[2]] = 1
    /\ \E j \in 1..LastCall :
          /\ ended[j - 1] = 1
          /\ eventQueue[j - 1].endTime = eventQueue[j].startTime
          /\ eventQueue[j].resources[OneLink[1]][OneLink[2]] = 1
    /\ succCalls >= 2

\* hop counts of the simple paths for the call at hand over the links with
\* a[u][v] > 0, the least element of a set of numbers, and whether the shortest path
\* over free links is strictly longer than the shortest path of the empty network
\* (no path counting as longer than any path)
HopCounts(a) == {Len(p) - 1 : p \in Paths(a, ThisCall.source, ThisCall.destination)}
Least(S) == CHOOSE n \in S : \A m \in S : n <= m
FartherThanEmpty ==
    /\ HopCounts(capacity) # {}
    /\ \/ HopCounts(availCap) = {}
       \/ Least(HopCounts(availCap)) > Least(HopCounts(capacity))

\* C20: under SHPO a call is blocked if and only if the minimum hop count over links
\* with availCap > 0 is strictly greater than the minimum hop count over links with
\* capacity > 0; otherwise it is admitted, on a path over links with availCap > 0 of
\* minimum hop count.
SHPORule ==
    [][RouteStep /\ PolicyName = "SHPO" =>
          /\ Blocked <=> FartherThanEmpty
          /\ Admitted =>
                /\ ReservedIsPath
                /\ Cardinality(Reserved) = Least(HopCounts(availCap))]_vars

\* exact arithmetic on the fractions of the cost array: the sum of the entries of a
\* set of links, and the comparison of two fractions with positive denominators
RECURSIVE CostSum(_)
CostSum(ls) ==
    IF ls = {}
    THEN Frac(0, 1)
    ELSE LET l == CHOOSE x \in ls : TRUE
             c == cost[l[1]][l[2]]
             r == CostSum(ls \ {l})
         IN  Frac(c.num * r.den + r.num * c.den, c.den * r.den)
FracLeq(x, y) == x.num * y.den <= y.num * x.den

\* C21: whenever LLP or MFC admits a call, the reserved links are a path from source
\* to destination over links with availCap > 0 whose exact sum of link weights (the
\* entries of the cost array, 1 - availCap/capacity or availCap/capacity) is minimal
\* among all such paths.
AdditiveCost ==
    [][Admitted /\ PolicyName \in {"LLP", "MFC"} =>
          /\ ReservedIsPath
          /\ \A p \in OpenPaths : FracLeq(CostSum(Reserved), CostSum(PathLinks(p)))]_vars

\* what is left of the program: the runs still to finish, each of totalCalls events
\* in two steps plus the step that prints its row, less the steps made in this run
StepsLeft ==
    (Len(Policies) + 1 - policy) * (2 * totalCalls + 1)
        - (2 * i + (IF pc = "route" THEN 1 ELSE 0))

\* C22: termination and ordering.  Every step leaves fewer steps to go and the
\* number left is never negative, so no run goes on for ever; none is left when main
\* has returned with one row per policy.  A run examines the events in list order,
\* each once: loading event i touches no later event and is followed by the
\* admission of event i, which alone advances i, by one; a run is left only when i
\* has reached totalCalls, with every event counted.  The search makes at most one
\* pass per vertex of its queue, and a predecessor walk visits no vertex twice, so
\* it adds at most NumNodes - 1 hops.
TerminationAndOrder ==
    /\ [](/\ StepsLeft >= 0
          /\ StepsLeft = 0 <=> policy = Len(Policies) + 1 /\ Len(output) = Len(Policies)
          /\ pc = "route" =>
                Search(ThisCall.source, ThisCall.destination, EdgeCost, availCap).size
                    \in 0..QueueSize(InitQueue(availCap)))
    /\ [][/\ StepsLeft' = StepsLeft - 1
          /\ pc = "load" /\ pc' = "route" =>
                /\ i' = i /\ i < totalCalls /\ policy' = policy
                /\ \A j \in (i + 1)..LastCall : eventQueue'[j] = eventQueue[j]
          /\ RouteStep =>
                /\ i' = i + 1 /\ policy' = policy
                /\ \A j \in (i + 1)..LastCall : eventQueue'[j] = eventQueue[j]
                /\ totalHops' - totalHops <= NumNodes - 1
          /\ i' # i /\ ~RouteStep =>
                /\ i = totalCalls /\ i' = 0
                /\ succCalls + blockedCalls = totalCalls
                /\ policy' = policy + 1
                /\ Len(output') = Len(output) + 1]_vars

\* main has returned after five runs over three events, with walks over more links
\* than one per event in every run
TerminationAndOrderWitness ==
    /\ StepsLeft = 0
    /\ policy = Len(Policies) + 1 /\ Len(output) = Len(Policies)
    /\ \A n \in 1..Len(output) :
          /\ output[n].totalCalls = MaxCalls
          /\ output[n].avgHop.num > MaxCalls

\* C23: the lifecycle of a call within a run.  A call that holds resources is
\* running.  A call not yet loaded is not running, holds nothing and has not been
\* ended; a call that timeUpdate has ended is not running and holds nothing.  The
\* step that counts a call as blocked leaves it not running and holding nothing, and
\* an examined call that is not running (blocked or expired) stays not running and
\* without resources in every later step of the run.
CallLifecycle ==
    /\ [](\A j \in DOMAIN eventQueue :
             /\ HoldsLinks(eventQueue[j]) => eventQueue[j].running
             /\ ended[j] >= 1 =>
                   ~eventQueue[j].running /\ eventQueue[j].resources = ZeroMatrix
             /\ j > i \/ (j = i /\ pc = "load") =>
                   /\ ~eventQueue[j].running
                   /\ eventQueue[j].resources = ZeroMatrix
                   /\ ended[j] = 0)
    /\ [][/\ Blocked =>
                ~eventQueue'[i].running /\ eventQueue'[i].resources = ZeroMatrix
          /\ policy' = policy =>
                \A j \in 0..(i - 1) :
                    ~eventQueue[j].running =>
                        /\ ~eventQueue'[j].running
                        /\ eventQueue'[j].resources = ZeroMatrix]_vars

\* at the end of a run one call has been blocked, one has been ended by timeUpdate
\* and one is running on two links
CallLifecycleWitness ==
    /\ pc = "load" /\ i = totalCalls
    /\ blockedCalls = 1 /\ succCalls = 2
    /\ \E j \in DOMAIN eventQueue : ended[j] = 1
    /\ \E j \in DOMAIN eventQueue :
          eventQueue[j].running /\ Cardinality(LinksHeld(eventQueue[j].resources)) = 2

\* the fields of a call event that are read from the workload file
Parsed(ev) ==
    <<ev.startTime, ev.duration, ev.endTime, ev.source, ev.destination>>

\* C24: no step of any run, the step of clearValues included, changes capacity,
\* propDelay, or the startTime, duration, endTime, source or destination of a call
\* event (nor the number of events).
ImmutableInputs ==
    [][/\ capacity' = capacity
       /\ propDelay' = propDelay
       /\ DOMAIN eventQueue' = DOMAIN eventQueue
       /\ \A j \in DOMAIN eventQueue : Parsed(eventQueue'[j]) = Parsed(eventQueue[j])]_vars

\* main has returned after five runs on a topology with all three links, in each of
\* which calls were admitted and a call was ended, and every call still ends at
\* startTime + duration
ImmutableInputsWitness ==
    /\ policy = Len(Policies) + 1 /\ Len(output) = Len(Policies)
    /\ \A l \in Links : capacity[l[1]][l[2]] > 0 /\ propDelay[l[1]][l[2]] > 0
    /\ \A n \in 1..Len(output) : output[n].succCalls >= 2 /\ output[n].blockedCalls >= 1
    /\ \A j \in DOMAIN eventQueue :
          eventQueue[j].endTime = eventQueue[j].startTime + eventQueue[j].duration

\* a table that reads the same in both orientations of every link
Symmetric(t) == \A u, v \in Nodes : t[u][v] = t[v][u]

\* C25: in every state availCap and every call's resources record are symmetric;
\* each step changes both orientations of a link by the same amount, and a release
\* gives a link the units of the ended calls once: availCap grows by what the
\* records of the ended calls held, in each orientation.
UndirectedSymmetry ==
    /\ [](/\ Symmetric(availCap)
          /\ \A j \in DOMAIN eventQueue : Symmetric(eventQueue[j].resources))
    /\ [][/\ \A u, v \in Nodes :
                /\ availCap'[u][v] - availCap[u][v] = availCap'[v][u] - availCap[v][u]
                /\ \A j \in DOMAIN eventQueue :
                      eventQueue'[j].resources[u][v] - eventQueue[j].resources[u][v]
                          = eventQueue'[j].resources[v][u] - eventQueue[j].resources[v][u]
          /\ pc = "load" /\ pc' = "route" =>
                \A u, v \in Nodes :
                    availCap'[u][v] = availCap[u][v] + DueUpTo(u, v, i - 1)]_vars

\* a call has been ended by a release while another call holds a link, after walks
\* of three hops in all, on a topology with links of capacity 1 and 2
UndirectedSymmetryWitness ==
    /\ pc = "route"
    /\ \E j \in 0..(i - 1) : ended[j] = 1
    /\ \E j \in 0..(i - 1) : eventQueue[j].running /\ HoldsLinks(eventQueue[j])
    /\ \E l \in Links : capacity[l[1]][l[2]] = 2 /\ availCap[l[1]][l[2]] = 1
    /\ \E l \in Links : capacity[l[1]][l[2]] = 1 /\ availCap[l[1]][l[2]] = 1
    /\ totalHops >= 3

\* C26: whenever SHPO admits a call, the links reserved for it are a path from its
\* source to its destination over links with availCap > 0, and the hops added to
\* totalHops are the hop count that emptySHPO returned for the current network in
\* the admission test.
SHPOSearchAgreement ==
    [][Admitted /\ PolicyName = "SHPO" =>
          /\ ReservedIsPath
          /\ totalHops' - totalHops
                = emptySHPO(ThisCall.source, ThisCall.destination, cost, availCap,
                            capacity)]_vars

\* C27: under SHPF, SDPF, LLP and MFC the admission step of a call whose source is
\* its destination changes neither availCap nor any resources record nor totalHops
\* nor totalProp; it counts the call as admitted if the node has a link with
\* availCap > 0 and as blocked if it has none.
SameNodeCall ==
    [][RouteStep /\ PolicyName # "SHPO" /\ ThisCall.source = ThisCall.destination =>
          /\ availCap' = availCap
          /\ \A j \in DOMAIN eventQueue :
                eventQueue'[j].resources = eventQueue[j].resources
          /\ totalHops' = totalHops /\ totalProp' = totalProp
          /\ IF \E v \in Nodes : availCap[ThisCall.source][v] > 0
             THEN Admitted /\ ~Blocked
             ELSE Blocked /\ ~Admitted]_vars

\* in one run a same-node call was admitted and is running, a second call then took
\* the node's last free circuit, and a third call, from the node to itself, was blocked
SameNodeCallWitness ==
    /\ pc = "load" /\ i = totalCalls /\ policy < Len(Policies)
    /\ eventQueue[0].source = eventQueue[0].destination
    /\ eventQueue[0].running
    /\ HoldsLinks(eventQueue[1])
    /\ eventQueue[2].source = eventQueue[0].source
    /\ eventQueue[2].destination = eventQueue[0].source
    /\ ~eventQueue[2].running
    /\ succCalls = 2 /\ blockedCalls = 1 /\ totalHops = 1

====
